---- MODULE Spec2Model ----
(***************************************************************************)
(* Model of the GraphQL client of src/graphql.go: the two public           *)
(* operations Query and Mutate, the routines doForWbyDc and do that they   *)
(* run, and the values those routines exchange with the transport, with    *)
(* encoding/json and with the structural decoder.                          *)
(*                                                                         *)
(* A response body is a sequence of tokens (an opening brace, members, a   *)
(* closing brace, white space, junk), so that a truncated read and a       *)
(* malformed body are bodies like any other.  JSON values and the Go       *)
(* values they decode to are tagged records.  The selection set of the     *)
(* target shape is one level deep: the fields id and name.  The keys of an *)
(* envelope are matched as written ("data", "errors").                     *)
(***************************************************************************)
EXTENDS Integers, Sequences, FiniteSets, TLC

VARIABLES
  client,     \* the Client: [url, httpClient]
  calls,      \* the calls of this run (a subset of CallIds)
  pc,         \* pc[c]: the line the call c is at
  args,       \* args[c]: the public operation, its arguments, the routine it runs
  v,          \* v[c]: the caller's target shape (q or m), mutated in place
  query,      \* query[c]: the local variable query
  buf,        \* buf[c]: the local variable buf, the request body
  requests,   \* requests[c]: the POSTs the call has issued, in order
  resp,       \* resp[c]: the *http.Response the transport returned
  bodyOpen,   \* bodyOpen[c]: resp.Body is open
  result,     \* result[c]: what reading resp.Body yielded: [bytes, failed]
  env,        \* env[c]: the decoded envelope (resultMap, or out)
  ret,        \* ret[c]: the returned values [val, err]
  steps       \* steps[c]: the stages the call has gone through, in order

vars == <<client, calls, pc, args, v, query, buf, requests, resp, bodyOpen,
          result, env, ret, steps>>

-----------------------------------------------------------------------------
(* Bounds and program constants *)

\* the longest "errors" array a response carries
MaxErrs == 2

StatusOK == 200

queryOperation == 0

mutationOperation == 1

CallIds == {"c1", "c2"}

None == [t |-> "none"]

-----------------------------------------------------------------------------
(* JSON text, as encoding/json reads and writes it *)

JNull == [t |-> "null"]

JStr(s) == [t |-> "str", s |-> s]

JNum(lit) == [t |-> "num", lit |-> lit]

JObj(m) == [t |-> "obj", m |-> m]

JArr(a) == [t |-> "arr", a |-> a]

\* Go values held in an interface{}
GoNil == [t |-> "nil"]

GoString(s) == [t |-> "string", s |-> s]

GoFloat64(f) == [t |-> "float64", f |-> f]

GoMap(m) == [t |-> "map", m |-> m]

GoSlice(a) == [t |-> "slice", a |-> a]

\* A number literal read into a float64: 2^53+1 is not a float64 and rounds
\* to 2^53; the other literals of the model are exact.
ParseFloat(lit) ==
  IF lit = "9007199254740993" THEN "9007199254740992" ELSE lit

\* A float64 written as a literal (the shortest text that reads back).
FormatFloat(f) == f

\* A number literal read into an int; -1 stands for the type error.
Atoi(lit) ==
  CASE lit = "1" -> 1
    [] lit = "2" -> 2
    [] lit = "5" -> 5
    [] OTHER -> -1

\* json.Unmarshal of a value into an interface{}
RECURSIVE UnmarshalValue(_)
UnmarshalValue(j) ==
  CASE j.t = "null" -> GoNil
    [] j.t = "str" -> GoString(j.s)
    [] j.t = "num" -> GoFloat64(ParseFloat(j.lit))
    [] j.t = "obj" -> GoMap([k \in DOMAIN j.m |-> UnmarshalValue(j.m[k])])
    [] j.t = "arr" -> GoSlice([i \in DOMAIN j.a |-> UnmarshalValue(j.a[i])])

\* json.Marshal of a value held in an interface{}
RECURSIVE MarshalValue(_)
MarshalValue(g) ==
  CASE g.t = "nil" -> JNull
    [] g.t = "string" -> JStr(g.s)
    [] g.t = "float64" -> JNum(FormatFloat(g.f))
    [] g.t = "map" -> JObj([k \in DOMAIN g.m |-> MarshalValue(g.m[k])])
    [] g.t = "slice" -> JArr([i \in DOMAIN g.a |-> MarshalValue(g.a[i])])
    [] g.t = "nilmap" -> JNull

\* json.Marshal fails on a value that holds a channel
RECURSIVE CanMarshal(_)
CanMarshal(g) ==
  CASE g.t = "chan" -> FALSE
    [] g.t = "map" -> \A k \in DOMAIN g.m : CanMarshal(g.m[k])
    [] g.t = "slice" -> \A i \in DOMAIN g.a : CanMarshal(g.a[i])
    [] OTHER -> TRUE

\* Tokens of a body
LB == [t |-> "{"]

RB == [t |-> "}"]

WS == [t |-> "ws"]

Junk == [t |-> "junk"]

Mem(k, val) == [t |-> "mem", k |-> k, val |-> val]

\* The indices of toks, from lo on, whose token satisfies neither test
FirstNot(toks, lo, skip) ==
  LET I == {i \in lo..Len(toks) : toks[i].t \notin skip}
  IN  IF I = {} THEN 0 ELSE CHOOSE i \in I : \A j \in I : i <= j

\* The scanner of encoding/json on a token sequence: the top-level value is
\* complete at its closing brace (to), is cut short (incomplete), or is not
\* JSON (syntax).
Scan(toks) ==
  LET i == FirstNot(toks, 1, {"ws"})
      j == FirstNot(toks, i + 1, {"ws", "mem"})
  IN  IF i = 0 THEN [st |-> "incomplete", seen |-> FALSE]
      ELSE IF toks[i].t # "{" THEN [st |-> "syntax"]
      ELSE IF j = 0 THEN [st |-> "incomplete", seen |-> TRUE]
      ELSE IF toks[j].t # "}" THEN [st |-> "syntax"]
      ELSE [st |-> "complete", from |-> i, to |-> j]

\* The members of a scanned object as a mapping; of two members with one key
\* the later one wins.
Members(toks, from, to) ==
  LET I == {i \in from..to : toks[i].t = "mem"}
      K == {toks[i].k : i \in I}
      Last(k) == CHOOSE i \in I : toks[i].k = k /\ \A j \in I : toks[j].k = k => j <= i
  IN  [k \in K |-> toks[Last(k)].val]

-----------------------------------------------------------------------------
(* Errors *)

NoErr == [kind |-> "nil"]

\* an error of the transport: ctxhttp.Post failed, or the body stream did
TransportErr(cause) == [kind |-> "transport", cause |-> cause]

\* fmt.Errorf("non-200 OK status code: %v body: %q", resp.Status, body)
StatusErr(status, body) == [kind |-> "status", status |-> status, body |-> body]

\* an error of encoding/json: "syntax", "eof" or "type"
JsonErr(what) == [kind |-> "json", what |-> what]

\* the type errors, returned through the error interface
ErrorsErr(list) == [kind |-> "errors", list |-> list]

\* the error of json.NewEncoder(&buf).Encode(in)
EncodeErr == [kind |-> "encode"]

\* the error of jsonutil.UnmarshalGraphQL
ShapeErr == [kind |-> "shape"]

\* errors.Error taking the message of the last element
ErrorOfLast(e) == IF Len(e) = 0 THEN "panic: index out of range" ELSE e[Len(e)].Message

\* errors.Error: the message of element 0; indexing an empty slice panics
Error(e) == IF Len(e) = 0 THEN "panic: index out of range" ELSE e[1].Message

-----------------------------------------------------------------------------
(* Decoding into the Go types of the program *)

\* json.Unmarshal into one element of Locations: struct{Line, Column int}
LocationOK(l) ==
  \/ l.t = "null"
  \/ /\ l.t = "obj"
     /\ \A k \in DOMAIN l.m \cap {"line", "column"} :
          \/ l.m[k].t = "null"
          \/ l.m[k].t = "num" /\ Atoi(l.m[k].lit) >= 0

IntField(l, k) ==
  IF l.t = "obj" /\ k \in DOMAIN l.m /\ l.m[k].t = "num" THEN Atoi(l.m[k].lit) ELSE 0

\* json.Unmarshal into one element of errors: struct{Message; Locations}
ErrorElemOK(e) ==
  \/ e.t = "null"
  \/ /\ e.t = "obj"
     /\ "message" \in DOMAIN e.m => e.m["message"].t \in {"str", "null"}
     /\ "locations" \in DOMAIN e.m =>
          \/ e.m["locations"].t = "null"
          \/ /\ e.m["locations"].t = "arr"
             /\ \A i \in DOMAIN e.m["locations"].a : LocationOK(e.m["locations"].a[i])

ErrorElem(e) ==
  [Message |->
     IF e.t = "obj" /\ "message" \in DOMAIN e.m /\ e.m["message"].t = "str"
     THEN e.m["message"].s ELSE "",
   Locations |->
     IF e.t = "obj" /\ "locations" \in DOMAIN e.m /\ e.m["locations"].t = "arr"
     THEN [i \in DOMAIN e.m["locations"].a |->
             [Line |-> IntField(e.m["locations"].a[i], "line"),
              Column |-> IntField(e.m["locations"].a[i], "column")]]
     ELSE <<>>]

\* json.Unmarshal of a JSON value into a value of type errors that is empty
\* before: null leaves it empty, an array fills it, anything else (or an
\* element of the wrong type) is an UnmarshalTypeError.
UnmarshalErrors(j) ==
  CASE j.t = "null" -> [ok |-> TRUE, list |-> <<>>]
    [] j.t = "arr" ->
         IF \A i \in DOMAIN j.a : ErrorElemOK(j.a[i])
         THEN [ok |-> TRUE, list |-> [i \in DOMAIN j.a |-> ErrorElem(j.a[i])]]
         ELSE [ok |-> FALSE]
    [] OTHER -> [ok |-> FALSE]

NilMap == [t |-> "nilmap"]

\* json.Unmarshal of a JSON value into a nil map[string]interface{}, its
\* error dropped: an object makes the map, null and every other value leave
\* it nil.
UnmarshalMap(j) == IF j.t = "obj" THEN UnmarshalValue(j) ELSE NilMap

\* json.Unmarshal(dataStr, resultData): without the &, nothing is stored
ResultDataNoPointer(body) == NilMap

\* lines 88-89: the value of "data" marshalled and unmarshalled into resultData
ResultData(body) == UnmarshalMap(MarshalValue(body))

\* json.Unmarshal of a whole body into resultMap
UnmarshalBody(toks) ==
  LET s == Scan(toks)
  IN  IF /\ s.st = "complete"
         /\ \A i \in (s.to + 1)..Len(toks) : toks[i].t = "ws"
      THEN [ok |-> TRUE,
            m |-> LET raw == Members(toks, s.from, s.to)
                  IN  [k \in DOMAIN raw |-> UnmarshalValue(raw[k])]]
      ELSE [ok |-> FALSE]

\* Decode dropping the data of an envelope that reports errors
DecodeOutErrorsFirst(raw) ==
  LET e == IF "errors" \in DOMAIN raw THEN UnmarshalErrors(raw["errors"])
           ELSE [ok |-> TRUE, list |-> <<>>]
  IN  IF e.ok
      THEN [ok |-> TRUE,
            Data |-> IF "data" \in DOMAIN raw /\ raw["data"].t # "null" /\ Len(e.list) = 0
                     THEN raw["data"] ELSE None,
            Errors |-> e.list]
      ELSE [ok |-> FALSE]

\* The struct out of do after Decode has filled it from the members of the
\* envelope: Data is nil for a missing or null "data", Errors is empty for a
\* missing or null "errors".
DecodeOut(raw) ==
  LET e == IF "errors" \in DOMAIN raw THEN UnmarshalErrors(raw["errors"])
           ELSE [ok |-> TRUE, list |-> <<>>]
  IN  IF e.ok
      THEN [ok |-> TRUE,
            Data |-> IF "data" \in DOMAIN raw /\ raw["data"].t # "null"
                     THEN raw["data"] ELSE None,
            Errors |-> e.list]
      ELSE [ok |-> FALSE]

\* json.NewDecoder(resp.Body).Decode(&out) on a stream that delivers toks and
\* then ends (failed = FALSE) or fails (failed = TRUE): the decoder reads no
\* further than the closing brace of the value.
Decode(toks, failed) ==
  LET s == Scan(toks)
  IN  CASE s.st = "complete" ->
             LET o == DecodeOut(Members(toks, s.from, s.to))
             IN  IF o.ok THEN [err |-> NoErr, out |-> o]
                 ELSE [err |-> JsonErr("type")]
        [] s.st = "syntax" -> [err |-> JsonErr("syntax")]
        [] OTHER -> IF failed THEN [err |-> TransportErr("read")]
                    ELSE [err |-> JsonErr("eof")]

-----------------------------------------------------------------------------
(* The collaborators that are not in graphql.go *)

\* jsonutil.UnmarshalGraphQL succeeds when the payload is an object whose
\* keys are fields of the target and whose values are strings.
ShapeFits(data, shape) ==
  /\ data.t = "obj"
  /\ \A k \in DOMAIN data.m : k \in DOMAIN shape /\ data.m[k].t = "str"

\* the target with the fields K populated from the payload
Populate(data, shape, K) ==
  [f \in DOMAIN shape |-> IF f \in K THEN data.m[f].s ELSE shape[f]]

\* the fields of the payload that can be populated
GoodKeys(data, shape) ==
  IF data.t = "obj"
  THEN {k \in DOMAIN data.m \cap DOMAIN shape : data.m[k].t = "str"}
  ELSE {}

\* The targets jsonutil.UnmarshalGraphQL may leave: on success every field of
\* the payload is populated, on failure any of those it reached before.
UnmarshalGraphQL(data, shape) ==
  IF ShapeFits(data, shape)
  THEN {[err |-> NoErr, shape |-> Populate(data, shape, DOMAIN data.m)]}
  ELSE {[err |-> ShapeErr, shape |-> Populate(data, shape, K)] :
          K \in SUBSET GoodKeys(data, shape)}

\* the names a variables mapping declares
VarNames(variables) == IF variables.t = "map" THEN DOMAIN variables.m ELSE {}

Document(keyword, name, shape, variables) ==
  [keyword |-> keyword, name |-> name, selection |-> DOMAIN shape,
   decls |-> VarNames(variables)]

constructQueryNoQueryKeyword(fn, shape, variables) ==
  Document("", fn, shape, variables)

constructQuery(shape, variables) == Document("query", "", shape, variables)

constructMutation(shape, variables) == Document("mutation", "", shape, variables)

\* the zero value of the local variable query
EmptyDocument == [keyword |-> "", name |-> "", selection |-> {}, decls |-> {}]

-----------------------------------------------------------------------------
(* The inputs: clients, arguments and what the server may answer *)

\* NewClient: a nil httpClient is replaced by http.DefaultClient
NewClient(url, httpClient) ==
  [url |-> url,
   httpClient |-> IF httpClient = "nil" THEN "http.DefaultClient" ELSE httpClient]

\* the target shapes a caller passes: the zero value, and one used before
Shapes == {[id |-> "", name |-> ""], [id |-> "0", name |-> "Bob"]}

\* the variables a caller passes: nil, empty, one variable, and a mapping
\* that json cannot encode
VariablesSet ==
  {NilMap, GoMap(<<>>), GoMap([id |-> GoString("1")]), GoMap([ch |-> [t |-> "chan"]])}

FieldNames == {"user"}

\* len(variables)
LenMap(variables) ==
  IF variables.t = "map" THEN Cardinality(DOMAIN variables.m) ELSE 0

\* the values of the "data" key
DataVals ==
  { JNull,
    JStr("oops"),
    JObj([id |-> JStr("1"), name |-> JStr("Ann")]),
    JObj([id |-> JStr("1")]),
    JObj([id |-> JStr("1"), extra |-> JStr("x")]),
    JObj([id |-> JNum("9007199254740993")]) }

\* the elements of an "errors" array: two well-formed ones and a string
ErrElems ==
  { JObj([message |-> JStr("field not found"),
          locations |-> JArr(<<JObj([line |-> JNum("2"), column |-> JNum("5")])>>)]),
    JObj([message |-> JStr("denied")]),
    JStr("oops") }

SeqsUpTo(S, n) == UNION {[1..k -> S] : k \in 0..n}

\* the values of the "errors" key
ErrVals == {JNull, JStr("boom")} \cup {JArr(a) : a \in SeqsUpTo(ErrElems, MaxErrs)}

Absent == [t |-> "absent"]

Member(k, val) == IF val = Absent THEN <<>> ELSE <<Mem(k, val)>>

\* the body of an envelope, with or without white space after it
EnvelopeBody(data, errs, ws) ==
  <<LB>> \o Member("data", data) \o Member("errors", errs) \o <<RB>>
         \o (IF ws THEN <<WS>> ELSE <<>>)

Bodies ==
  {EnvelopeBody(d, e, ws) :
     d \in DataVals \cup {Absent}, e \in ErrVals \cup {Absent}, ws \in BOOLEAN}
  \cup {<<>>, <<Junk>>, <<Junk, Junk>>}

\* the bodies sent with a status other than 200
FailBodies ==
  { <<>>, <<Junk>>,
    EnvelopeBody(JObj([id |-> JStr("1")]), Absent, FALSE),
    EnvelopeBody(Absent, JArr(<<JObj([message |-> JStr("denied")])>>), TRUE) }

\* resp.Status
Status(code) ==
  CASE code = 200 -> "200 OK"
    [] code = 204 -> "204 No Content"
    [] code = 500 -> "500 Internal Server Error"

Responses ==
  {[StatusCode |-> StatusOK, Body |-> b] : b \in Bodies}
  \cup {[StatusCode |-> s, Body |-> b] : s \in {204, 500}, b \in FailBodies}

\* the failures of ctxhttp.Post
PostErrs == {TransportErr("context canceled"), TransportErr("dial tcp")}

\* what a reader gets from a body: all of it, or a part of it and a failure
Reads(body) ==
  {[bytes |-> body, failed |-> FALSE]}
  \cup {[bytes |-> SubSeq(body, 1, n), failed |-> TRUE] : n \in 0..(Len(body) - 1)}

\* The part of a body a json.Decoder reads: no further than the closing
\* brace of the top-level value.
DecoderInput(body) ==
  IF Scan(body).st = "complete" THEN SubSeq(body, 1, Scan(body).to) ELSE body

\* The inputs of two calls in flight at once are drawn from fewer values, one
\* of each case, so that all their interleavings are gone through.
Concurrent == Cardinality(calls) > 1

\* the target shapes the callers pass
ArgShapes == IF Concurrent THEN {[id |-> "", name |-> ""]} ELSE Shapes

\* the variables the callers pass
ArgVariables ==
  IF Concurrent
  THEN {NilMap, GoMap([id |-> GoString("1")]), GoMap([ch |-> [t |-> "chan"]])}
  ELSE VariablesSet

\* the responses the server gives
Served ==
  IF Concurrent
  THEN {[StatusCode |-> StatusOK, Body |-> b] :
          b \in { EnvelopeBody(Absent, Absent, FALSE),
                  EnvelopeBody(JObj([id |-> JStr("1"), name |-> JStr("Ann")]), Absent, FALSE),
                  EnvelopeBody(JStr("oops"), Absent, FALSE),
                  EnvelopeBody(JObj([id |-> JStr("1")]),
                               JArr(<<JObj([message |-> JStr("denied")])>>), FALSE),
                  EnvelopeBody(Absent, JArr(<<JStr("oops")>>), FALSE),
                  <<Junk>> }}
       \cup {[StatusCode |-> 500, Body |-> <<Junk>>]}
  ELSE Responses

\* the failures of the POST
PostFailures == IF Concurrent THEN {TransportErr("dial tcp")} ELSE PostErrs

-----------------------------------------------------------------------------
(* State *)

Init ==
  /\ client \in {NewClient("http://gql", h) : h \in {"nil", "custom"}}
  /\ calls = {"c1"}
  /\ pc = [c \in CallIds |-> "idle"]
  /\ args = [c \in CallIds |-> None]
  /\ v = [c \in CallIds |-> None]
  /\ query = [c \in CallIds |-> None]
  /\ buf = [c \in CallIds |-> None]
  /\ requests = [c \in CallIds |-> <<>>]
  /\ resp = [c \in CallIds |-> None]
  /\ bodyOpen = [c \in CallIds |-> FALSE]
  /\ result = [c \in CallIds |-> None]
  /\ env = [c \in CallIds |-> None]
  /\ ret = [c \in CallIds |-> None]
  /\ steps = [c \in CallIds |-> <<>>]

\* two calls on the one Client
InitTwo ==
  /\ client = NewClient("http://gql", "nil")
  /\ calls = CallIds
  /\ pc = [c \in CallIds |-> "idle"]
  /\ args = [c \in CallIds |-> None]
  /\ v = [c \in CallIds |-> None]
  /\ query = [c \in CallIds |-> None]
  /\ buf = [c \in CallIds |-> None]
  /\ requests = [c \in CallIds |-> <<>>]
  /\ resp = [c \in CallIds |-> None]
  /\ bodyOpen = [c \in CallIds |-> FALSE]
  /\ result = [c \in CallIds |-> None]
  /\ env = [c \in CallIds |-> None]
  /\ ret = [c \in CallIds |-> None]
  /\ steps = [c \in CallIds |-> <<>>]

\* a return that runs no deferred Close
DeferredCloseLeak(open) == open

\* defer resp.Body.Close(): what the deferred call leaves of an open body
DeferredClose(open) == FALSE

\* the call goes to the line l, having gone through the stages
Goto(c, l, stages) ==
  /\ pc' = [pc EXCEPT ![c] = l]
  /\ steps' = [steps EXCEPT ![c] = @ \o stages]

\* a return statement before the deferred Close is registered
ReturnEarly(c, val, err, stages) ==
  /\ ret' = [ret EXCEPT ![c] = [val |-> val, err |-> err]]
  /\ Goto(c, "done", stages)
  /\ UNCHANGED bodyOpen

\* a return statement after it: the values are returned, the deferred call runs
Return(c, val, err, stages) ==
  /\ ret' = [ret EXCEPT ![c] = [val |-> val, err |-> err]]
  /\ bodyOpen' = [bodyOpen EXCEPT ![c] = DeferredClose(@)]
  /\ Goto(c, "done", stages)

\* a request made of a buffer all the calls of the Client write to
RequestShared(c) ==
  [url |-> client.url, httpClient |-> client.httpClient,
   contentType |-> "application/json", body |-> buf["c1"]]

\* the request ctxhttp.Post sends for the call
Request(c) ==
  [url |-> client.url, httpClient |-> client.httpClient,
   contentType |-> "application/json", body |-> buf[c]]

\* a status test that lets every 2xx status through
StatusFailedFrom300(code) == code >= 300

\* resp.StatusCode != http.StatusOK
StatusFailed(code) == code # StatusOK

\* an omitempty that leaves out only the nil map
OmitNil(variables) == variables = NilMap

\* the omitempty option of the field Variables: a nil or empty map is left out
OmitEmpty(variables) == LenMap(variables) = 0

\* the JSON of the struct in
EncodeRequest(q, variables) ==
  JObj([k \in {"query"} \cup (IF OmitEmpty(variables) THEN {} ELSE {"variables"}) |->
          IF k = "query" THEN JStr(q) ELSE MarshalValue(variables)])

-----------------------------------------------------------------------------
(* The public operations *)

Query(c) ==
  /\ pc[c] = "idle"
  /\ \E fn \in FieldNames, q \in ArgShapes, variables \in ArgVariables :
       /\ args' = [args EXCEPT ![c] =
                     [entry |-> "Query", routine |-> "doForWbyDc",
                      op |-> queryOperation, fn |-> fn, shape |-> q,
                      variables |-> variables]]
       /\ v' = [v EXCEPT ![c] = q]
  /\ pc' = [pc EXCEPT ![c] = "g_build"]
  /\ UNCHANGED <<client, calls, query, buf, requests, resp, bodyOpen, result,
                 env, ret, steps>>

Mutate(c) ==
  /\ pc[c] = "idle"
  /\ \E m \in ArgShapes, variables \in ArgVariables :
       /\ args' = [args EXCEPT ![c] =
                     [entry |-> "Mutate", routine |-> "do",
                      op |-> mutationOperation, fn |-> "", shape |-> m,
                      variables |-> variables]]
       /\ v' = [v EXCEPT ![c] = m]
  /\ pc' = [pc EXCEPT ![c] = "t_build"]
  /\ UNCHANGED <<client, calls, query, buf, requests, resp, bodyOpen, result,
                 env, ret, steps>>

-----------------------------------------------------------------------------
(* doForWbyDc *)

\* a doForWbyDc that encodes the envelope do sends
G_BuildEnveloped(c) ==
  /\ pc[c] = "g_build"
  /\ LET q == CASE args[c].op = queryOperation ->
                     constructQueryNoQueryKeyword(args[c].fn, v[c], args[c].variables)
                [] args[c].op = mutationOperation ->
                     constructMutation(v[c], args[c].variables)
                [] OTHER -> EmptyDocument
     IN  /\ query' = [query EXCEPT ![c] = q]
         /\ buf' = [buf EXCEPT ![c] =
                      [t |-> "json", val |-> JObj([query |-> JStr(q)])]]
  /\ Goto(c, "g_post", <<"Built">>)
  /\ UNCHANGED <<client, calls, args, v, requests, resp, bodyOpen, result, env, ret>>

\* lines 48-57: the query is built and written to buf
G_Build(c) ==
  /\ pc[c] = "g_build"
  /\ LET q == CASE args[c].op = queryOperation ->
                     constructQueryNoQueryKeyword(args[c].fn, v[c], args[c].variables)
                [] args[c].op = mutationOperation ->
                     constructMutation(v[c], args[c].variables)
                [] OTHER -> EmptyDocument
     IN  /\ query' = [query EXCEPT ![c] = q]
         /\ buf' = [buf EXCEPT ![c] = [t |-> "text", doc |-> q]]
  /\ Goto(c, "g_post", <<"Built">>)
  /\ UNCHANGED <<client, calls, args, v, requests, resp, bodyOpen, result, env, ret>>

\* a POST whose first failure is answered by sending the request once more
G_PostRetry(c) ==
  /\ pc[c] = "g_post"
  /\ requests' = [requests EXCEPT ![c] = Append(@, Request(c))]
  /\ \/ \E e \in PostFailures :
          /\ IF Len(requests[c]) = 0
             THEN Goto(c, "g_post", <<"Sent", "TransportError">>) /\ UNCHANGED <<ret, bodyOpen>>
             ELSE ReturnEarly(c, NilMap, e, <<"Sent", "TransportError">>)
          /\ UNCHANGED resp
     \/ \E r \in Served :
          /\ resp' = [resp EXCEPT ![c] = r]
          /\ bodyOpen' = [bodyOpen EXCEPT ![c] = TRUE]
          /\ Goto(c, "g_status", <<"Sent", "AwaitingStatus">>)
          /\ UNCHANGED ret
  /\ UNCHANGED <<client, calls, args, v, query, buf, result, env>>

\* lines 58-62: the POST; its failure is returned, its response kept and the
\* Close of its body deferred
G_Post(c) ==
  /\ pc[c] = "g_post"
  /\ requests' = [requests EXCEPT ![c] = Append(@, Request(c))]
  /\ \/ \E e \in PostFailures :
          /\ ReturnEarly(c, NilMap, e, <<"Sent", "TransportError">>)
          /\ UNCHANGED resp
     \/ \E r \in Served :
          /\ resp' = [resp EXCEPT ![c] = r]
          /\ bodyOpen' = [bodyOpen EXCEPT ![c] = TRUE]
          /\ Goto(c, "g_status", <<"Sent", "AwaitingStatus">>)
          /\ UNCHANGED ret
  /\ UNCHANGED <<client, calls, args, v, query, buf, result, env>>

\* lines 64-67: a status other than 200 ends the call with the status and
\* what could be read of the body
G_Status(c) ==
  /\ pc[c] = "g_status"
  /\ \/ /\ StatusFailed(resp[c].StatusCode)
        /\ \E rd \in Reads(resp[c].Body) :
             /\ result' = [result EXCEPT ![c] = rd]
             /\ Return(c, NilMap, StatusErr(Status(resp[c].StatusCode), rd.bytes),
                       <<"StatusError">>)
     \/ /\ ~StatusFailed(resp[c].StatusCode)
        /\ Goto(c, "g_read", <<"StatusOK">>)
        /\ UNCHANGED <<result, ret, bodyOpen>>
  /\ UNCHANGED <<client, calls, args, v, query, buf, requests, resp, env>>

\* line 69: result, _ := ioutil.ReadAll(resp.Body); the error is dropped
G_ReadAll(c) ==
  /\ pc[c] = "g_read"
  /\ \E rd \in Reads(resp[c].Body) : result' = [result EXCEPT ![c] = rd]
  /\ Goto(c, "g_unmarshal", <<"BodyRead">>)
  /\ UNCHANGED <<client, calls, args, v, query, buf, requests, resp, bodyOpen, env, ret>>

\* lines 71-76: the bytes read are decoded into resultMap
G_Unmarshal(c) ==
  /\ pc[c] = "g_unmarshal"
  /\ \E u \in {UnmarshalBody(result[c].bytes)} :
         \/ /\ ~u.ok
            /\ Return(c, NilMap, JsonErr("syntax"), <<"EnvelopeDecodeError">>)
            /\ UNCHANGED env
         \/ /\ u.ok
            /\ env' = [env EXCEPT ![c] = u.m]
            /\ Goto(c, "g_errors", <<"EnvelopeOK">>)
            /\ UNCHANGED <<ret, bodyOpen>>
  /\ UNCHANGED <<client, calls, args, v, query, buf, requests, resp, result>>

\* lines 77-85: an "errors" key ends the call: with the decoded list as the
\* error, or with the failure to decode it
G_Errors(c) ==
  /\ pc[c] = "g_errors"
  /\ \/ /\ "errors" \in DOMAIN env[c]
        /\ LET errs == UnmarshalErrors(MarshalValue(env[c]["errors"]))
           IN  IF errs.ok
               THEN Return(c, NilMap, ErrorsErr(errs.list), <<"HasErrors">>)
               ELSE Return(c, NilMap, JsonErr("type"), <<"HasErrors", "ErrorsDecodeError">>)
     \/ /\ "errors" \notin DOMAIN env[c]
        /\ Goto(c, "g_data", <<>>)
        /\ UNCHANGED <<ret, bodyOpen>>
  /\ UNCHANGED <<client, calls, args, v, query, buf, requests, resp, result, env>>

\* an envelope with neither key taken for a failure
G_DataEmptyIsError(c) ==
  /\ pc[c] = "g_data"
  /\ \/ /\ "data" \in DOMAIN env[c]
        /\ Return(c, ResultData(env[c]["data"]), NoErr, <<"HasData">>)
     \/ /\ "data" \notin DOMAIN env[c]
        /\ Return(c, NilMap, JsonErr("no data"), <<"Empty">>)
  /\ UNCHANGED <<client, calls, args, v, query, buf, requests, resp, result, env>>

\* lines 87-92: a "data" key is returned as a map, and nothing is otherwise
G_Data(c) ==
  /\ pc[c] = "g_data"
  /\ \/ /\ "data" \in DOMAIN env[c]
        /\ Return(c, ResultData(env[c]["data"]), NoErr, <<"HasData">>)
     \/ /\ "data" \notin DOMAIN env[c]
        /\ Return(c, NilMap, NoErr, <<"Empty">>)
  /\ UNCHANGED <<client, calls, args, v, query, buf, requests, resp, result, env>>

-----------------------------------------------------------------------------
(* do *)

\* lines 97-115: the query is built and the struct in encoded into buf; a
\* failure to encode is returned
T_Build(c) ==
  /\ pc[c] = "t_build"
  /\ LET q == CASE args[c].op = queryOperation ->
                     constructQuery(v[c], args[c].variables)
                [] args[c].op = mutationOperation ->
                     constructMutation(v[c], args[c].variables)
                [] OTHER -> EmptyDocument
     IN  /\ query' = [query EXCEPT ![c] = q]
         /\ \/ /\ ~CanMarshal(args[c].variables)
               /\ ReturnEarly(c, None, EncodeErr, <<"Built", "EncodeError">>)
               /\ UNCHANGED buf
            \/ /\ CanMarshal(args[c].variables)
               /\ buf' = [buf EXCEPT ![c] =
                            [t |-> "json", val |-> EncodeRequest(q, args[c].variables)]]
               /\ Goto(c, "t_post", <<"Built">>)
               /\ UNCHANGED <<ret, bodyOpen>>
  /\ UNCHANGED <<client, calls, args, v, requests, resp, result, env>>

\* lines 116-120: the POST
T_Post(c) ==
  /\ pc[c] = "t_post"
  /\ requests' = [requests EXCEPT ![c] = Append(@, Request(c))]
  /\ \/ \E e \in PostFailures :
          /\ ReturnEarly(c, None, e, <<"Sent", "TransportError">>)
          /\ UNCHANGED resp
     \/ \E r \in Served :
          /\ resp' = [resp EXCEPT ![c] = r]
          /\ bodyOpen' = [bodyOpen EXCEPT ![c] = TRUE]
          /\ Goto(c, "t_status", <<"Sent", "AwaitingStatus">>)
          /\ UNCHANGED ret
  /\ UNCHANGED <<client, calls, args, v, query, buf, result, env>>

\* a status test whose failure is noted and not returned
T_StatusNoReturn(c) ==
  /\ pc[c] = "t_status"
  /\ Goto(c, "t_decode",
          IF StatusFailed(resp[c].StatusCode) THEN <<"StatusError">> ELSE <<"StatusOK">>)
  /\ UNCHANGED <<client, calls, args, v, query, buf, requests, resp, env,
                 result, ret, bodyOpen>>

\* lines 121-124: a status other than 200
T_Status(c) ==
  /\ pc[c] = "t_status"
  /\ \/ /\ StatusFailed(resp[c].StatusCode)
        /\ \E rd \in Reads(resp[c].Body) :
             /\ result' = [result EXCEPT ![c] = rd]
             /\ Return(c, None, StatusErr(Status(resp[c].StatusCode), rd.bytes),
                       <<"StatusError">>)
     \/ /\ ~StatusFailed(resp[c].StatusCode)
        /\ Goto(c, "t_decode", <<"StatusOK">>)
        /\ UNCHANGED <<result, ret, bodyOpen>>
  /\ UNCHANGED <<client, calls, args, v, query, buf, requests, resp, env>>

\* a decoding of the envelope that first resets the target
T_DecodeResets(c) ==
  /\ pc[c] = "t_decode"
  /\ v' = [v EXCEPT ![c] = [f \in DOMAIN @ |-> ""]]
  /\ \E rd \in Reads(DecoderInput(resp[c].Body)) :
       \E d \in {Decode(rd.bytes, rd.failed)} :
           /\ result' = [result EXCEPT ![c] = rd]
           /\ \/ /\ d.err # NoErr
                 /\ Return(c, None, d.err,
                           IF d.err.kind = "transport" THEN <<"TransportError">>
                           ELSE <<"BodyRead", "EnvelopeDecodeError">>)
                 /\ UNCHANGED env
              \/ /\ d.err = NoErr
                 /\ env' = [env EXCEPT ![c] = d.out]
                 /\ Goto(c, "t_data", <<"BodyRead", "EnvelopeOK">>)
                 /\ UNCHANGED <<ret, bodyOpen>>
  /\ UNCHANGED <<client, calls, args, query, buf, requests, resp>>

\* lines 125-134: the body is decoded into out as it is read; the error of
\* the decoder, which is the error of the stream when the stream failed
\* before the value was whole, is returned
T_Decode(c) ==
  /\ pc[c] = "t_decode"
  /\ \E rd \in Reads(DecoderInput(resp[c].Body)) :
       \E d \in {Decode(rd.bytes, rd.failed)} :
           /\ result' = [result EXCEPT ![c] = rd]
           /\ \/ /\ d.err # NoErr
                 /\ Return(c, None, d.err,
                           IF d.err.kind = "transport" THEN <<"TransportError">>
                           ELSE <<"BodyRead", "EnvelopeDecodeError">>)
                 /\ UNCHANGED env
              \/ /\ d.err = NoErr
                 /\ env' = [env EXCEPT ![c] = d.out]
                 /\ Goto(c, "t_data", <<"BodyRead", "EnvelopeOK">>)
                 /\ UNCHANGED <<ret, bodyOpen>>
  /\ UNCHANGED <<client, calls, args, v, query, buf, requests, resp>>

\* a decoder failure that is not returned: the call goes on to the list
T_DataNoReturn(c) ==
  /\ pc[c] = "t_data"
  /\ \/ /\ env[c].Data # None
        /\ \E u \in UnmarshalGraphQL(env[c].Data, v[c]) :
             /\ v' = [v EXCEPT ![c] = u.shape]
             /\ Goto(c, "t_errors",
                     <<"HasData", "DecodeIntoShape",
                       IF u.err # NoErr THEN "DecodeError" ELSE "DecodeOK">>)
             /\ UNCHANGED <<ret, bodyOpen>>
     \/ /\ env[c].Data = None
        /\ Goto(c, "t_errors", <<>>)
        /\ UNCHANGED <<v, ret, bodyOpen>>
  /\ UNCHANGED <<client, calls, args, query, buf, requests, resp, result, env>>

\* lines 135-141: a "data" that is there is handed to the structural
\* decoder, whose failure is returned
T_Data(c) ==
  /\ pc[c] = "t_data"
  /\ \/ /\ env[c].Data # None
        /\ \E u \in UnmarshalGraphQL(env[c].Data, v[c]) :
             /\ v' = [v EXCEPT ![c] = u.shape]
             /\ IF u.err # NoErr
                THEN Return(c, None, u.err, <<"HasData", "DecodeIntoShape", "DecodeError">>)
                ELSE /\ Goto(c, "t_errors", <<"HasData", "DecodeIntoShape", "DecodeOK">>)
                     /\ UNCHANGED <<ret, bodyOpen>>
     \/ /\ env[c].Data = None
        /\ Goto(c, "t_errors", <<>>)
        /\ UNCHANGED <<v, ret, bodyOpen>>
  /\ UNCHANGED <<client, calls, args, query, buf, requests, resp, result, env>>

\* lines 142-145: a list of errors that is not empty is returned as the error
T_Errors(c) ==
  /\ pc[c] = "t_errors"
  /\ \/ /\ Len(env[c].Errors) > 0
        /\ Return(c, None, ErrorsErr(env[c].Errors), <<"HasErrors">>)
     \/ /\ Len(env[c].Errors) = 0
        /\ Return(c, None, NoErr, IF env[c].Data = None THEN <<"Empty">> ELSE <<>>)
  /\ UNCHANGED <<client, calls, args, v, query, buf, requests, resp, result, env>>

-----------------------------------------------------------------------------

Next ==
  \/ \E c \in calls : Query(c)
  \/ \E c \in calls : Mutate(c)
  \/ \E c \in calls : G_Build(c)
  \/ \E c \in calls : G_Post(c)
  \/ \E c \in calls : G_Status(c)
  \/ \E c \in calls : G_ReadAll(c)
  \/ \E c \in calls : G_Unmarshal(c)
  \/ \E c \in calls : G_Errors(c)
  \/ \E c \in calls : G_Data(c)
  \/ \E c \in calls : T_Build(c)
  \/ \E c \in calls : T_Post(c)
  \/ \E c \in calls : T_Status(c)
  \/ \E c \in calls : T_Decode(c)
  \/ \E c \in calls : T_Data(c)
  \/ \E c \in calls : T_Errors(c)

Spec == Init /\ [][Next]_vars

\* the steps of a call that has been made: the lines of its routine
Run(c) ==
  \/ G_Build(c) \/ G_Post(c) \/ G_Status(c) \/ G_ReadAll(c)
  \/ G_Unmarshal(c) \/ G_Errors(c) \/ G_Data(c)
  \/ T_Build(c) \/ T_Post(c) \/ T_Status(c) \/ T_Decode(c)
  \/ T_Data(c) \/ T_Errors(c)

\* the lines of the two routines, and the return
Lines ==
  {"g_build", "g_post", "g_status", "g_read", "g_unmarshal", "g_errors", "g_data",
   "t_build", "t_post", "t_status", "t_decode", "t_data", "t_errors", "done"}

\* the call, in one of the routines, goes from its line to another
Step(c) ==
  /\ pc[c] \in Lines \ {"done"}
  /\ \E l \in Lines \ {pc[c]} : pc' = [pc EXCEPT ![c] = l]

\* A routine has no loop and no wait of its own: when the builder, the
\* transport and the decoder return, a call that was made goes on from the
\* line it is at.  That a call is made at all is up to the caller.
FairSpec == InitTwo /\ [][Next]_vars /\ \A c \in CallIds : WF_pc(Step(c))

\* two calls in flight, with nothing said of their pace
TwoSpec == InitTwo /\ [][Next]_vars

-----------------------------------------------------------------------------
(* What the claims speak of *)

Done(c) == pc[c] = "done"

Generic(c) == args[c] # None /\ args[c].routine = "doForWbyDc"

Typed(c) == args[c] # None /\ args[c].routine = "do"

\* the call got a 200 response whose body is an envelope and reached it whole
Answered(c) ==
  /\ resp[c] # None /\ resp[c].StatusCode = StatusOK
  /\ UnmarshalBody(resp[c].Body).ok
  /\ result[c] # None /\ ~result[c].failed

\* the envelope the server sent
Envelope(c) ==
  Members(resp[c].Body, Scan(resp[c].Body).from, Scan(resp[c].Body).to)

HasData(c) == "data" \in DOMAIN Envelope(c)

HasErrorsKey(c) == "errors" \in DOMAIN Envelope(c)

\* the envelope has an "errors" array that is not empty
NonEmptyErrors(c) ==
  /\ HasErrorsKey(c)
  /\ Envelope(c)["errors"].t = "arr"
  /\ Len(Envelope(c)["errors"].a) > 0

\* the message of an element of "errors" as the server wrote it
MessageOf(e) ==
  IF e.t = "obj" /\ "message" \in DOMAIN e.m /\ e.m["message"].t = "str"
  THEN e.m["message"].s ELSE ""

\* an element of "errors" is a GraphQL error: an object with a string message
\* and, if it has locations, an array of objects with integer line and column
WellFormedError(e) ==
  /\ e.t = "obj"
  /\ "message" \in DOMAIN e.m /\ e.m["message"].t = "str"
  /\ "locations" \in DOMAIN e.m =>
       /\ e.m["locations"].t = "arr"
       /\ \A i \in DOMAIN e.m["locations"].a :
            LET l == e.m["locations"].a[i]
            IN  /\ l.t = "obj"
                /\ \A k \in DOMAIN l.m \cap {"line", "column"} :
                     l.m[k].t = "num" /\ l.m[k].lit \in {"1", "2", "5"}

WellFormedErrors(c) ==
  \A i \in DOMAIN Envelope(c)["errors"].a : WellFormedError(Envelope(c)["errors"].a[i])

\* the call gave its caller nothing: a nil map, or an untouched target
ResultEmpty(c) ==
  IF Generic(c) THEN ret[c].val = NilMap ELSE v[c] = args[c].shape

\* the stage a comes before the stage b in the steps of the call
Before(c, a, b) ==
  \E i, j \in DOMAIN steps[c] : i < j /\ steps[c][i] = a /\ steps[c][j] = b

Stages(c) == {steps[c][i] : i \in DOMAIN steps[c]}

-----------------------------------------------------------------------------
(* C1 *)

-----------------------------------------------------------------------------
(* C2 *)

-----------------------------------------------------------------------------
(* C3 *)

\* the stages that parse the envelope, look at "data" or "errors", or run
\* the structural decoder
ParseStages ==
  {"EnvelopeOK", "EnvelopeDecodeError", "HasErrors", "ErrorsDecodeError",
   "HasData", "Empty", "DecodeIntoShape", "DecodeOK", "DecodeError"}

\* C3: a response whose status is not 200 ends the call, in both routines,
\* with the status error made of the status text and of the body as read (the
\* whole body unless the stream failed); the call never reaches a line that
\* parses the envelope, looks at "data" or "errors" or runs the structural
\* decoder, and the target is left as it was.
C3_StatusFailure ==
  \A c \in calls :
    (resp[c] # None /\ resp[c].StatusCode # StatusOK)
      => /\ pc[c] \in {"g_status", "t_status", "done"}
         /\ Stages(c) \cap ParseStages = {}
         /\ env[c] = None
         /\ v[c] = args[c].shape
         /\ Done(c) =>
              /\ ret[c].err = StatusErr(Status(resp[c].StatusCode), result[c].bytes)
              /\ \E n \in 0..Len(resp[c].Body) :
                   result[c].bytes = SubSeq(resp[c].Body, 1, n)
              /\ ~result[c].failed => result[c].bytes = resp[c].Body
              /\ ret[c].val \in {NilMap, None}

C3_Witness ==
  \E c \in calls :
    /\ Done(c) /\ resp[c] # None /\ resp[c].StatusCode = 500
    /\ Scan(resp[c].Body).st = "complete" /\ HasErrorsKey(c)
    /\ ~result[c].failed
    /\ ret[c].err.kind = "status"
    /\ ret[c].err.status = "500 Internal Server Error"

-----------------------------------------------------------------------------
(* C4 *)

\* C4 as stated: with a "data" key and no "errors" key, doForWbyDc returns no
\* error and a mapping equal to the data: one that reads, as JSON, as the
\* value of "data".
C4_AsStated ==
  \A c \in calls :
    (Done(c) /\ Generic(c) /\ Answered(c) /\ HasData(c) /\ ~HasErrorsKey(c))
      => /\ ret[c].err = NoErr
         /\ MarshalValue(ret[c].val) = Envelope(c)["data"]

\* C4, amended: with a "data" key and no "errors" key, doForWbyDc returns no
\* error and, when the data is a JSON object, the mapping that encoding/json
\* decodes it to (every number as the float64 nearest to it); when the data
\* is null or is no object, it returns a nil mapping.
C4_DataNormalized ==
  \A c \in calls :
    (Done(c) /\ Generic(c) /\ Answered(c) /\ HasData(c) /\ ~HasErrorsKey(c))
      => /\ ret[c].err = NoErr
         /\ ret[c].val = IF Envelope(c)["data"].t = "obj"
                         THEN UnmarshalValue(Envelope(c)["data"])
                         ELSE NilMap

C4_Witness ==
  \E c \in calls :
    /\ Done(c) /\ Generic(c) /\ Answered(c) /\ HasData(c) /\ ~HasErrorsKey(c)
    /\ Envelope(c)["data"] = JObj([id |-> JStr("1"), name |-> JStr("Ann")])
    /\ ret[c].val = GoMap([id |-> GoString("1"), name |-> GoString("Ann")])
    /\ ret[c].err = NoErr

-----------------------------------------------------------------------------
(* C5 *)

\* C5 as stated: a Query that gets a 200 response with a "data" the target
\* can take, and no errors, returns no error and has populated the target q
\* with the data.
C5_QueryPopulates ==
  \A c \in calls :
    (/\ Done(c) /\ args[c].entry = "Query"
     /\ Answered(c) /\ HasData(c) /\ ~HasErrorsKey(c)
     /\ ShapeFits(Envelope(c)["data"], args[c].shape))
      => /\ ret[c].err = NoErr
         /\ \A f \in DOMAIN Envelope(c)["data"].m :
              v[c][f] = Envelope(c)["data"].m[f].s

-----------------------------------------------------------------------------
(* C6 *)

\* the kind of error do returns for a 200 response whose body it reads whole
DoErrKind(body, shape) ==
  LET d == Decode(DecoderInput(body), FALSE)
  IN  IF d.err # NoErr THEN d.err.kind
      ELSE IF d.out.Data # None /\ ~ShapeFits(d.out.Data, shape) THEN "shape"
      ELSE IF Len(d.out.Errors) > 0 THEN "errors"
      ELSE "nil"

\* C6 as stated: Query and Mutate run the one routine do, so that a call of
\* either sends the {query, variables} envelope and, for a 200 response read
\* whole, ends with the kind of error do gives for it and with the target
\* treated as do treats it.
C6_SharedRoutine ==
  \A c \in calls :
    args[c] # None
      => /\ args[c].routine = "do"
         /\ requests[c] # <<>> => requests[c][1].body.t = "json"
         /\ (Done(c) /\ Answered(c)) =>
              /\ ret[c].err.kind = DoErrKind(resp[c].Body, args[c].shape)
              /\ (ret[c].err = NoErr /\ HasData(c) /\ Envelope(c)["data"].t # "null")
                   => v[c] = Populate(Envelope(c)["data"], args[c].shape,
                                      DOMAIN Envelope(c)["data"].m)

-----------------------------------------------------------------------------
(* C7 *)

\* C7: the envelope do sends always has the "query" key, holding the query,
\* and has the "variables" key, holding the variables, exactly when the
\* mapping passed has at least one entry: a nil and an empty mapping both
\* leave the key out.
C7_VariablesOmitted ==
  \A c \in calls :
    (Typed(c) /\ requests[c] # <<>>)
      => LET b == requests[c][1].body
             nonEmpty == args[c].variables.t = "map" /\ DOMAIN args[c].variables.m # {}
         IN  /\ b.t = "json" /\ b.val.t = "obj"
             /\ "query" \in DOMAIN b.val.m
             /\ b.val.m["query"] = JStr(query[c])
             /\ "variables" \in DOMAIN b.val.m <=> nonEmpty
             /\ nonEmpty => b.val.m["variables"] = MarshalValue(args[c].variables)

C7_Witness ==
  \E c \in calls :
    /\ Typed(c) /\ requests[c] # <<>>
    /\ args[c].variables = GoMap(<<>>)
    /\ DOMAIN requests[c][1].body.val.m = {"query"}

-----------------------------------------------------------------------------
(* C8 *)

\* C8 as stated: an error list returned as the error of a call has at least
\* one element, so that its Error() is defined.
C8_ErrorListNonEmpty ==
  \A c \in calls :
    (Done(c) /\ ret[c].err.kind = "errors")
      => /\ Len(ret[c].err.list) >= 1
         /\ Error(ret[c].err.list) # "panic: index out of range"

-----------------------------------------------------------------------------
(* C9 *)

\* C9: a call that has returned has left no response body open, whatever the
\* exit; a call the transport gave no response never had one.
C9_BodyClosed ==
  \A c \in calls :
    /\ Done(c) => ~bodyOpen[c]
    /\ resp[c] = None => ~bodyOpen[c]

C9_Witness ==
  \E c \in calls :
    /\ Done(c) /\ resp[c] # None /\ ~bodyOpen[c]
    /\ ret[c].err = ShapeErr

-----------------------------------------------------------------------------
(* C10 *)

\* C10 as stated: when the stream of a 200 response fails while its body is
\* read, the call ends with a transport error and goes through no stage that
\* parses or classifies what was read.
C10_ReadFailure ==
  \A c \in calls :
    (/\ Done(c) /\ resp[c] # None /\ resp[c].StatusCode = StatusOK
     /\ result[c] # None /\ result[c].failed)
      => /\ ret[c].err.kind = "transport"
         /\ Stages(c) \cap ParseStages = {}

-----------------------------------------------------------------------------
(* Paths of the two routines *)

\* doForWbyDc: the list of errors could not be decoded
Path_ErrorsDecodeError ==
  \E c \in calls : Done(c) /\ Generic(c) /\ "ErrorsDecodeError" \in Stages(c)

\* doForWbyDc: the read failed after the closing brace and the call succeeded
Path_SilentPartialRead ==
  \E c \in calls :
    /\ Done(c) /\ Generic(c) /\ result[c] # None /\ result[c].failed
    /\ ret[c].err = NoErr /\ ret[c].val # NilMap

\* do: the structural decoder failed and left the target partly populated
Path_PartialShape ==
  \E c \in calls :
    /\ Done(c) /\ Typed(c) /\ ret[c].err = ShapeErr
    /\ v[c] # args[c].shape

\* do: the request could not be encoded
Path_EncodeError ==
  \E c \in calls : Done(c) /\ Typed(c) /\ ret[c].err = EncodeErr /\ requests[c] = <<>>

\* do: the stream failed before the value was whole
Path_DecodeStreamError ==
  \E c \in calls : Done(c) /\ Typed(c) /\ ret[c].err = TransportErr("read")

\* do: no data and no errors
Path_TypedEmpty ==
  \E c \in calls : Done(c) /\ Typed(c) /\ ret[c].err = NoErr /\ "Empty" \in Stages(c)

-----------------------------------------------------------------------------
(* C11 *)

\* the number of times the stage a is in the steps of the call
Count(c, a) == Cardinality({i \in DOMAIN steps[c] : steps[c][i] = a})

\* the call ended with a failure
Failed(c) == Done(c) /\ ret[c].err # NoErr

\* C11: a call of either entry point sends at most one POST: none before the
\* line of the POST, none when the request could not be encoded, exactly one
\* from then on; a call that ended with a failure, whichever it is, has sent
\* no second request, and the request it sent is the one of its buffer.
C11_AtMostOnePost ==
  \A c \in calls :
    /\ Len(requests[c]) <= 1
    /\ Len(requests[c]) = Count(c, "Sent")
    /\ Len(requests[c]) = IF pc[c] \in {"idle", "g_build", "t_build", "g_post", "t_post"}
                             \/ "EncodeError" \in Stages(c)
                          THEN 0 ELSE 1
    /\ Failed(c) => Len(requests[c]) = IF ret[c].err = EncodeErr THEN 0 ELSE 1
    /\ requests[c] # <<>> => requests[c][1] = Request(c)

C11_Witness ==
  \E c \in calls :
    /\ Failed(c) /\ ret[c].err.kind = "transport"
    /\ resp[c] = None /\ Len(requests[c]) = 1

-----------------------------------------------------------------------------
(* C12 *)

\* C12: a 200 response whose envelope has neither a "data" nor an "errors"
\* key makes doForWbyDc return a nil result and a nil error, through the
\* stage Empty and no other stage that looks at data or errors.
C12_EmptyEnvelope ==
  \A c \in calls :
    (Done(c) /\ Generic(c) /\ Answered(c) /\ ~HasData(c) /\ ~HasErrorsKey(c))
      => /\ ret[c] = [val |-> NilMap, err |-> NoErr]
         /\ Stages(c) \cap ParseStages = {"EnvelopeOK", "Empty"}
         /\ v[c] = args[c].shape

C12_Witness ==
  \E c \in calls :
    /\ Done(c) /\ Generic(c) /\ Answered(c) /\ ~HasData(c) /\ ~HasErrorsKey(c)
    /\ args[c].entry = "Query"
    /\ DOMAIN Envelope(c) = {}
    /\ ret[c].val = NilMap /\ ret[c].err = NoErr

-----------------------------------------------------------------------------
(* C13 *)

\* the structural decoder was run on the data of the call and failed
DecoderFailed(c) == Typed(c) /\ "DecodeError" \in Stages(c)

\* C13: in do, when the data is there and the structural decoder fails, the
\* call returns the failure of the decoder at once: DecodeError is its last
\* stage, the list of errors is not looked at, and the error returned is the
\* failure of the decoder also when the envelope has a non-empty "errors".
\* Every 200 envelope read whole whose data is not null and does not fit the
\* target, and whose "errors", if any, are GraphQL errors, ends so.
C13_DecodeFailureFirst ==
  \A c \in calls :
    /\ DecoderFailed(c)
         => /\ Done(c)
            /\ ret[c].err = ShapeErr
            /\ steps[c][Len(steps[c])] = "DecodeError"
            /\ "HasErrors" \notin Stages(c)
            /\ env[c].Data # None
    /\ (/\ Done(c) /\ Typed(c) /\ Answered(c)
        /\ HasData(c) /\ Envelope(c)["data"].t # "null"
        /\ ~ShapeFits(Envelope(c)["data"], args[c].shape)
        /\ HasErrorsKey(c) => (Envelope(c)["errors"].t = "arr" /\ WellFormedErrors(c)))
         => DecoderFailed(c) /\ ret[c].err = ShapeErr

C13_Witness ==
  \E c \in calls :
    /\ Done(c) /\ DecoderFailed(c) /\ Answered(c)
    /\ NonEmptyErrors(c) /\ WellFormedErrors(c)
    /\ Len(env[c].Errors) > 0
    /\ ret[c].err = ShapeErr

-----------------------------------------------------------------------------
(* C14 *)

\* the stages the state machine of the classification names
MachineStages ==
  {"Sent", "TransportError", "AwaitingStatus", "StatusOK", "StatusError",
   "BodyRead", "EnvelopeOK", "EnvelopeDecodeError", "HasErrors", "HasData",
   "DecodeIntoShape", "DecodeOK", "DecodeError", "Empty"}

\* the order as stated: the steps from a stage to the next
StatedOrder ==
  {<<"Sent", "TransportError">>, <<"Sent", "AwaitingStatus">>,
   <<"AwaitingStatus", "StatusOK">>, <<"AwaitingStatus", "StatusError">>,
   <<"StatusOK", "BodyRead">>,
   <<"BodyRead", "EnvelopeOK">>, <<"BodyRead", "EnvelopeDecodeError">>,
   <<"EnvelopeOK", "HasErrors">>, <<"EnvelopeOK", "HasData">>,
   <<"EnvelopeOK", "Empty">>,
   <<"HasData", "DecodeIntoShape">>,
   <<"DecodeIntoShape", "DecodeOK">>, <<"DecodeIntoShape", "DecodeError">>}

\* the steps the two routines take besides: do goes from a decoded data to
\* the list of errors, and ends on a stream that fails while it decodes the
\* body or on a request it cannot encode; doForWbyDc may fail to decode the
\* list of errors
OrderOf(routine) ==
  StatedOrder \cup {<<"Built", "Sent">>}
    \cup (IF routine = "do"
          THEN {<<"Built", "EncodeError">>, <<"StatusOK", "TransportError">>,
                <<"DecodeOK", "HasErrors">>}
          ELSE {<<"HasErrors", "ErrorsDecodeError">>})

\* the stages a routine can return from
TerminalOf(routine) ==
  {"TransportError", "StatusError", "EnvelopeDecodeError", "HasErrors", "Empty"}
    \cup (IF routine = "do" THEN {"EncodeError", "DecodeOK", "DecodeError"}
          ELSE {"ErrorsDecodeError", "HasData"})

\* the stages nothing follows
LastStages ==
  {"TransportError", "StatusError", "EnvelopeDecodeError", "ErrorsDecodeError",
   "EncodeError", "DecodeError", "Empty"}

\* the steps of the call that are stages of the machine, in order
RECURSIVE Machine(_)
Machine(s) ==
  IF s = <<>> THEN <<>>
  ELSE (IF Head(s) \in MachineStages THEN <<Head(s)>> ELSE <<>>) \o Machine(Tail(s))

\* every step of the sequence s is a step of the order
Follows(s, order) ==
  \A i \in 1..(Len(s) - 1) : <<s[i], s[i + 1]>> \in order

NoRevisit(s) == \A i, j \in DOMAIN s : s[i] = s[j] => i = j

\* the call was made
Started(c) == pc[c] # "idle"

\* C14 as stated: the stages of a call come in the order Sent, AwaitingStatus,
\* StatusOK or StatusError, BodyRead, EnvelopeOK or EnvelopeDecodeError, and
\* then one of HasErrors, HasData and DecodeIntoShape, Empty; none is skipped
\* or met twice; and a call that ends with a transport failure has looked at
\* no status and no body.
C14_AsStated ==
  \A c \in calls :
    /\ Follows(Machine(steps[c]), StatedOrder)
    /\ NoRevisit(steps[c])
    /\ Machine(steps[c]) # <<>> => Machine(steps[c])[1] = "Sent"
    /\ (Done(c) /\ ret[c].err.kind = "transport")
         => Stages(c) \cap {"StatusOK", "StatusError", "BodyRead"} = {}

\* C14, amended: the stages of a call come in the stated order, with these
\* steps besides: do goes on from a data it decoded to the list of errors
\* (DecodeOK, then HasErrors), ends with a transport error after StatusOK
\* when the stream fails while it decodes the body, and ends before Sent when
\* it cannot encode the request; doForWbyDc has no DecodeIntoShape, HasData
\* being its last stage, and may fail to decode the list after HasErrors.  No
\* stage is skipped or met twice, a call that has not returned is in no last
\* stage, a call that has returned is in a terminal stage of its routine and
\* stays as it is; a failure of the POST ends the call before any status or
\* body is looked at; and, the builder, the transport and the decoder each
\* returning, every call that was made returns.
C14_StageOrder ==
  /\ [](\A c \in calls :
          /\ Started(c) => Follows(steps[c], OrderOf(args[c].routine))
          /\ NoRevisit(steps[c])
          /\ steps[c] # <<>> => steps[c][1] = "Built"
          /\ ~Done(c) => Stages(c) \cap LastStages = {}
          /\ (Started(c) /\ ~Done(c)) => ENABLED Run(c)
          /\ Done(c) => steps[c][Len(steps[c])] \in TerminalOf(args[c].routine)
          /\ (Done(c) /\ resp[c] = None) =>
               /\ ret[c].err.kind \in {"transport", "encode"}
               /\ Stages(c) \subseteq {"Built", "Sent", "TransportError", "EncodeError"}
          /\ (Done(c) /\ ret[c].err.kind = "transport" /\ resp[c] # None) =>
               /\ Typed(c)
               /\ Machine(steps[c]) = <<"Sent", "AwaitingStatus", "StatusOK", "TransportError">>)
  /\ [][\A c \in calls : Done(c) => (steps'[c] = steps[c] /\ ret'[c] = ret[c]
                                      /\ pc'[c] = pc[c])]_vars
  /\ \A c \in CallIds : (c \in calls /\ Started(c)) ~> Done(c)

C14_Witness ==
  \E c \in calls :
    /\ Done(c) /\ Typed(c)
    /\ Machine(steps[c]) = <<"Sent", "AwaitingStatus", "StatusOK", "BodyRead", "EnvelopeOK",
                              "HasData", "DecodeIntoShape", "DecodeOK", "HasErrors">>

-----------------------------------------------------------------------------
(* C15 *)

\* C15: the body of the request doForWbyDc sends is the text of the document
\* its builder made, without the operation keyword, and never a JSON
\* envelope; the body of the request do sends is a JSON envelope whose
\* "query" key holds the document its builder made, with the keyword.
C15_RequestBodies ==
  \A c \in calls :
    \A i \in DOMAIN requests[c] :
      LET b == requests[c][i].body
      IN  /\ Generic(c) =>
               /\ b.t = "text"
               /\ b.doc = constructQueryNoQueryKeyword(args[c].fn, args[c].shape,
                                                       args[c].variables)
               /\ b.doc.keyword = ""
               /\ b.doc = query[c]
          /\ Typed(c) =>
               /\ b.t = "json" /\ b.val.t = "obj"
               /\ "query" \in DOMAIN b.val.m
               /\ b.val.m["query"] = JStr(constructMutation(args[c].shape, args[c].variables))
               /\ b.val.m["query"].s.keyword \in {"query", "mutation"}
               /\ DOMAIN b.val.m \subseteq {"query", "variables"}

C15_Witness ==
  \E c \in calls :
    /\ Generic(c) /\ requests[c] # <<>>
    /\ args[c].variables = GoMap([id |-> GoString("1")])
    /\ requests[c][1].body =
         [t |-> "text",
          doc |-> [keyword |-> "", name |-> "user", selection |-> {"id", "name"},
                   decls |-> {"id"}]]

-----------------------------------------------------------------------------
(* C16 *)

\* what belongs to the call: its arguments, its locals and what it returned
Own(c) ==
  <<pc[c], args[c], v[c], query[c], buf[c], requests[c], resp[c], bodyOpen[c],
    result[c], env[c], ret[c], steps[c]>>

\* the body a call with the arguments a sends
BodyOf(a) ==
  IF a.routine = "doForWbyDc"
  THEN [t |-> "text", doc |-> constructQueryNoQueryKeyword(a.fn, a.shape, a.variables)]
  ELSE [t |-> "json",
        val |-> EncodeRequest(constructMutation(a.shape, a.variables), a.variables)]

Outcome(val, err, shape) == [val |-> val, err |-> err, shape |-> shape]

\* what doForWbyDc gives for the arguments a, the response r (None when the
\* POST failed) and the read rd of its body
OutcomesGeneric(a, r, rd) ==
  IF r = None THEN {Outcome(NilMap, e, a.shape) : e \in PostFailures}
  ELSE IF r.StatusCode # StatusOK
  THEN {Outcome(NilMap, StatusErr(Status(r.StatusCode), rd.bytes), a.shape)}
  ELSE LET u == UnmarshalBody(rd.bytes)
       IN  IF ~u.ok THEN {Outcome(NilMap, JsonErr("syntax"), a.shape)}
           ELSE IF "errors" \in DOMAIN u.m
           THEN LET errs == UnmarshalErrors(MarshalValue(u.m["errors"]))
                IN  {Outcome(NilMap,
                             IF errs.ok THEN ErrorsErr(errs.list) ELSE JsonErr("type"),
                             a.shape)}
           ELSE IF "data" \in DOMAIN u.m
           THEN {Outcome(ResultData(u.m["data"]), NoErr, a.shape)}
           ELSE {Outcome(NilMap, NoErr, a.shape)}

\* what do gives for them
OutcomesTyped(a, r, rd) ==
  IF ~CanMarshal(a.variables) THEN {Outcome(None, EncodeErr, a.shape)}
  ELSE IF r = None THEN {Outcome(None, e, a.shape) : e \in PostFailures}
  ELSE IF r.StatusCode # StatusOK
  THEN {Outcome(None, StatusErr(Status(r.StatusCode), rd.bytes), a.shape)}
  ELSE LET d == Decode(rd.bytes, rd.failed)
           listErr == IF Len(d.out.Errors) > 0 THEN ErrorsErr(d.out.Errors) ELSE NoErr
       IN  IF d.err # NoErr THEN {Outcome(None, d.err, a.shape)}
           ELSE IF d.out.Data # None
           THEN {Outcome(None, IF u.err # NoErr THEN u.err ELSE listErr, u.shape) :
                   u \in UnmarshalGraphQL(d.out.Data, a.shape)}
           ELSE {Outcome(None, listErr, a.shape)}

\* C16: the calls on a Client share nothing they write.  No step changes
\* the url or the httpClient of the Client; every step is the step of one
\* call and leaves what belongs to the other call as it is; and, in every
\* interleaving of two calls, the request of a call is made of the Client and
\* of its own arguments, and what it returns and leaves in its target is
\* what its routine gives for its own arguments, its own response and its
\* own read of the body.
C16_NoSharedState ==
  /\ [][client' = client]_vars
  /\ [][\E c \in calls : \A d \in calls \ {c} : Own(d)' = Own(d)]_vars
  /\ [](\A c \in calls :
          /\ requests[c] # <<>> =>
               requests[c][1] = [url |-> client.url, httpClient |-> client.httpClient,
                                 contentType |-> "application/json",
                                 body |-> BodyOf(args[c])]
          /\ Done(c) =>
               Outcome(ret[c].val, ret[c].err, v[c])
                 \in IF Generic(c) THEN OutcomesGeneric(args[c], resp[c], result[c])
                                   ELSE OutcomesTyped(args[c], resp[c], result[c]))

\* both calls have returned, having run abreast, with different arguments and
\* different responses: the one an error of the server, the other its data
C16_Witness ==
  /\ calls = {"c1", "c2"}
  /\ Done("c1") /\ Done("c2")
  /\ args["c1"].entry = "Mutate" /\ args["c2"].entry = "Mutate"
  /\ args["c1"].variables # args["c2"].variables
  /\ ret["c1"].err.kind = "errors" /\ v["c1"] = [id |-> "1", name |-> ""]
  /\ ret["c2"].err = NoErr /\ v["c2"] = [id |-> "1", name |-> "Ann"]
  /\ requests["c1"][1] # requests["c2"][1]

-----------------------------------------------------------------------------
(* C17 *)

\* the target of the call is as the caller passed it
Untouched(c) == v[c] = args[c].shape

\* C17: do leaves the target as it was when it ends with a failure to encode
\* the request, a failure of the transport, a status failure or a failure to
\* decode the envelope, and when the envelope has no "data" (or a null one);
\* a target that differs from what was passed belongs to a call that reached
\* the structural decoder, and the target is written at that line only.
C17_ShapeFrame ==
  \A c \in calls :
    Typed(c) =>
      /\ ~Untouched(c) => "DecodeIntoShape" \in Stages(c)
      /\ pc[c] \in {"t_build", "t_post", "t_status", "t_decode", "t_data"} => Untouched(c)
      /\ (Done(c) /\ ret[c].err.kind \in {"encode", "transport", "status", "json"})
           => Untouched(c) /\ "DecodeIntoShape" \notin Stages(c)
      /\ (Done(c) /\ env[c] # None /\ env[c].Data = None)
           => Untouched(c) /\ "DecodeIntoShape" \notin Stages(c)
      /\ (Done(c) /\ Answered(c) /\ ~HasData(c)) => Untouched(c)

C17_Witness ==
  \E c \in calls :
    /\ Done(c) /\ Typed(c)
    /\ args[c].shape = [id |-> "0", name |-> "Bob"]
    /\ Answered(c) /\ HasData(c) /\ ShapeFits(Envelope(c)["data"], args[c].shape)
    /\ ret[c].err = JsonErr("type")
    /\ Untouched(c)

====
